---- MODULE Spec2Model ----
(***************************************************************************)
(* A state-machine model of the iterative solvers of spm-image:            *)
(*   - linear_model/admm.py : _update, _admm, admm_path and the transform  *)
(*     matrices of LassoADMM / FusedLassoADMM;                             *)
(*   - decomposition/ksvd.py : _ksvd.                                      *)
(* Real numbers are exact rationals <<numerator, denominator>>; a square   *)
(* root is never evaluated: it is carried as its radicand and compared     *)
(* exactly.                                                                *)
(***************************************************************************)
EXTENDS Integers, Sequences, FiniteSets, TLC

VARIABLES admm, upd, path, ksvd, fused

vars == <<admm, upd, path, ksvd, fused>>

----------------------------------------------------------------------------
(* Exact rational arithmetic standing for numpy's float arithmetic.        *)

IAbs(i) == IF i < 0 THEN -i ELSE i

RECURSIVE GCD(_, _)
GCD(a, b) == IF b = 0 THEN a ELSE GCD(b, a % b)

Rat(n, d) ==
    LET g == GCD(IAbs(n), IAbs(d))
        s == IF d < 0 THEN -1 ELSE 1
    IN  <<(s * n) \div g, (s * d) \div g>>

R(i) == <<i, 1>>

RAdd(a, b) ==
    LET g == GCD(a[2], b[2])
    IN  Rat(a[1] * (b[2] \div g) + b[1] * (a[2] \div g), (a[2] \div g) * b[2])

RNeg(a) == <<-a[1], a[2]>>

RSub(a, b) == RAdd(a, RNeg(b))

RMul(a, b) ==
    LET g1 == GCD(IAbs(a[1]), b[2])
        g2 == GCD(IAbs(b[1]), a[2])
    IN  Rat((a[1] \div g1) * (b[1] \div g2), (a[2] \div g2) * (b[2] \div g1))

RDiv(a, b) == RMul(a, IF b[1] < 0 THEN <<-b[2], -b[1]>> ELSE <<b[2], b[1]>>)

\* a/b < c/d for a, c >= 0 and b, d > 0, by continued fractions (no product)
RECURSIVE FracLt(_, _, _, _)
FracLt(a, b, c, d) ==
    IF a \div b # c \div d THEN a \div b < c \div d
    ELSE IF c % d = 0 THEN FALSE
    ELSE IF a % b = 0 THEN TRUE
    ELSE FracLt(d, c % d, b, a % b)

RLt(a, b) ==
    IF a[1] < 0
    THEN IF b[1] < 0 THEN FracLt(-b[1], b[2], -a[1], a[2]) ELSE TRUE
    ELSE IF b[1] < 0 THEN FALSE ELSE FracLt(a[1], a[2], b[1], b[2])

RLe(a, b) == ~RLt(b, a)

RAbs(a) == <<IAbs(a[1]), a[2]>>

RSign(a) == IF a[1] > 0 THEN R(1) ELSE IF a[1] < 0 THEN R(-1) ELSE R(0)

----------------------------------------------------------------------------
(* Vectors are sequences of rationals, matrices sequences of rows.         *)

\* a function over 1..n, evaluated now into the tuple it denotes (TLC would
\* otherwise keep it as an unevaluated closure over the previous iterate)
Vec(f) == IF f = <<>> THEN <<>> ELSE f

RECURSIVE RSum(_)
RSum(v) == IF v = <<>> THEN R(0) ELSE RAdd(v[1], RSum(Tail(v)))

VDot(u, v) == RSum([i \in 1..Len(u) |-> RMul(u[i], v[i])])

VAdd(u, v) == Vec([i \in 1..Len(u) |-> RAdd(u[i], v[i])])

VSub(u, v) == Vec([i \in 1..Len(u) |-> RSub(u[i], v[i])])

VScale(c, v) == Vec([i \in 1..Len(v) |-> RMul(c, v[i])])

VZeros(n) == [i \in 1..n |-> R(0)]

NRows(M) == Len(M)

NCols(M) == Len(M[1])

Col(M, k) == Vec([i \in 1..NRows(M) |-> M[i][k]])

Transpose(M) == [j \in 1..NCols(M) |-> Col(M, j)]

MatVec(M, v) == Vec([i \in 1..NRows(M) |-> VDot(M[i], v)])

MatMul(A, B) == [i \in 1..NRows(A) |-> [j \in 1..NCols(B) |-> VDot(A[i], Col(B, j))]]

MatAdd(A, B) == [i \in 1..NRows(A) |-> VAdd(A[i], B[i])]

MatScale(c, M) == [i \in 1..NRows(M) |-> VScale(c, M[i])]

RMat(M) == [i \in 1..Len(M) |-> [j \in 1..Len(M[i]) |-> R(M[i][j])]]

Eye(n, k) == [i \in 1..n |-> [j \in 1..n |-> IF j - i = k THEN 1 ELSE 0]]

DropAt(s, k) == [i \in 1..(Len(s) - 1) |-> IF i < k THEN s[i] ELSE s[i + 1]]

Minor(M, r, c) == [i \in 1..(NRows(M) - 1) |-> DropAt(DropAt(M, r)[i], c)]

RECURSIVE Det(_)
Det(M) ==
    IF Len(M) = 0 THEN R(1)
    ELSE IF Len(M) = 1 THEN M[1][1]
    ELSE RSum([j \in 1..Len(M) |->
                 RMul(IF j % 2 = 1 THEN M[1][j] ELSE RNeg(M[1][j]),
                      Det(Minor(M, 1, j)))])

Inv(M) ==
    LET d == Det(M)
    IN  [i \in 1..Len(M) |-> [j \in 1..Len(M) |->
            RDiv(IF (i + j) % 2 = 0 THEN Det(Minor(M, j, i))
                 ELSE RNeg(Det(Minor(M, j, i))), d)]]

----------------------------------------------------------------------------
(* admm.py: _soft_threshold, _cost_function and the gap test.              *)

\* np.where(np.abs(X) <= thresh, 0, X - thresh * np.sign(X)), elementwise
SoftThreshold(v, thresh) ==
    Vec([i \in 1..Len(v) |->
            IF RLe(RAbs(v[i]), thresh) THEN R(0)
            ELSE RSub(v[i], RMul(thresh, RSign(v[i])))])

\* np.linalg.norm(y - X.dot(w)) / n_samples + alpha * np.sum(np.abs(z)).
\* The value is sqrt(rad) + rat: the norm divided by n_samples is the square
\* root of (sum of squares / n_samples^2); the norm of a single residual is
\* its absolute value and goes to rat.
CostFunction(X, y, w, z, alpha) ==
    LET res == VSub(y, MatVec(X, w))
        n_samples == NRows(X)
        penalty == RMul(alpha, RSum([i \in 1..Len(z) |-> RAbs(z[i])]))
    IN  IF n_samples = 1
        THEN [rad |-> R(0), rat |-> RAdd(RAbs(res[1]), penalty)]
        ELSE [rad |-> RDiv(VDot(res, res), R(n_samples * n_samples)),
              rat |-> penalty]

\* sqrt(a) - sqrt(b) < c, for rationals a, b >= 0, decided by squaring
SqrtDiffLt(a, b, c) ==
    LET c2 == RMul(c, c)
        four_c2_b == RMul(R(4), RMul(c2, b))
    IN  IF RLe(R(0), c)
        THEN LET e == RSub(RSub(a, c2), b)
             IN  IF RLt(e, R(0)) THEN TRUE
                 ELSE RLt(RMul(e, e), four_c2_b)
        ELSE IF ~RLt(c2, b) THEN FALSE
             ELSE LET f == RSub(RAdd(c2, b), a)
                  IN  IF RLe(f, R(0)) THEN FALSE
                      ELSE RLt(four_c2_b, RMul(f, f))

\* gap = np.abs(cost - pre_cost); gap < tol
GapBelowTol(cost, pre_cost, tol) ==
    LET d == RSub(cost.rat, pre_cost.rat)
    IN  /\ SqrtDiffLt(cost.rad, pre_cost.rad, RSub(tol, d))
        /\ SqrtDiffLt(pre_cost.rad, cost.rad, RAdd(tol, d))

----------------------------------------------------------------------------
(* Transform matrices (generate_transform_matrix).                         *)

\* LassoADMM: np.eye(n_features)
LassoTransform(n_features) == RMat(Eye(n_features, 0))

\* the difference matrix with its first diagonal entry left in place
FusedDifferenceKeepFirst(n_features) ==
    [i \in 1..n_features |-> [j \in 1..n_features |->
        Eye(n_features, 0)[i][j] - Eye(n_features, -1)[i][j]]]

\* fused = np.eye(n) - np.eye(n, k=-1); fused[0, 0] = 0
FusedDifference(n_features) ==
    [i \in 1..n_features |-> [j \in 1..n_features |->
        IF i = 1 /\ j = 1 THEN 0
        ELSE Eye(n_features, 0)[i][j] - Eye(n_features, -1)[i][j]]]

\* generated = sparse_coef * np.eye(n) + fused_coef * fused
FusedTransform(n_features, sparse_coef, fused_coef) ==
    MatAdd(MatScale(sparse_coef, RMat(Eye(n_features, 0))),
           MatScale(fused_coef, RMat(FusedDifference(n_features))))

----------------------------------------------------------------------------
(* Banded storage: sp.sparse.dia_matrix, _dia_to_tridiagonal, solve_banded *)

\* the offsets a dia_matrix built from a dense matrix stores: those of the
\* diagonals holding a non-zero entry
DiaOffsets(M) ==
    {o \in (1 - Len(M))..(Len(M) - 1) :
        \E i \in 1..Len(M) : i + o \in 1..Len(M) /\ M[i][i + o] # R(0)}

\* band = X.data[[one, zero, minusone], :]; data[k][j] = M[j - offset][j]
DiaToTridiagonal(M) ==
    [r \in 1..3 |-> [j \in 1..Len(M) |->
        LET i == j - (2 - r)
        IN  IF i \in 1..Len(M) THEN M[i][j] ELSE R(0)]]

\* the matrix solve_banded((1, 1), ab, .) solves with: ab[1 + i - j][j] = a[i][j]
FromBanded(ab) ==
    [i \in 1..Len(ab[1]) |-> [j \in 1..Len(ab[1]) |->
        IF i - j \in {-1, 0, 1} THEN ab[2 + i - j][j] ELSE R(0)]]

SolveBanded(ab, b) == MatVec(Inv(FromBanded(ab)), b)

SolveBandedMat(ab, B) == MatMul(Inv(FromBanded(ab)), B)

----------------------------------------------------------------------------
(* numpy arrays with a shape: [shape |-> <<d1, ..., dn>>, at |-> a function *)
(* of the index tuples].                                                   *)

RECURSIVE Indices(_)
Indices(shape) ==
    IF shape = <<>> THEN {<<>>}
    ELSE {<<i>> \o rest : i \in 1..Head(shape), rest \in Indices(Tail(shape))}

NdFromMatrix(M) ==
    [shape |-> <<NRows(M), NCols(M)>>,
     at |-> [idx \in Indices(<<NRows(M), NCols(M)>>) |-> M[idx[1]][idx[2]]]]

\* the index of the unsqueezed array an index of the squeezed one stands for
RECURSIVE Unsqueeze(_, _)
Unsqueeze(shape, idx) ==
    IF shape = <<>> THEN <<>>
    ELSE IF Head(shape) = 1 THEN <<1>> \o Unsqueeze(Tail(shape), idx)
    ELSE <<Head(idx)>> \o Unsqueeze(Tail(shape), Tail(idx))

IsNotOne(d) == d # 1

\* np.squeeze: every axis of length 1 is removed
Squeeze(a) ==
    LET shape == SelectSeq(a.shape, IsNotOne)
    IN  [shape |-> shape,
         at |-> [idx \in Indices(shape) |-> a.at[Unsqueeze(a.shape, idx)]]]

----------------------------------------------------------------------------
(* admm.py: _update, one activation per target.  A state st of _update is  *)
(* [pc, w_k, z_k, h_k, Dw_t, cost, pre_cost, it, t, t_bound, broke, costs]: *)
(* it counts the values range(max_iter) has handed out, t_bound is whether *)
(* the loop variable t has been assigned, costs lists every cost computed. *)
(* c holds the arguments of the call.                                      *)

UpdatePending ==
    [pc |-> "pending", w_k |-> <<>>, z_k |-> <<>>, h_k |-> <<>>, Dw_t |-> <<>>,
     cost |-> [rad |-> R(0), rat |-> R(0)],
     pre_cost |-> [rad |-> R(0), rat |-> R(0)],
     it |-> 0, t |-> 0, t_bound |-> FALSE, broke |-> FALSE, costs |-> <<>>]

\* lines 41-48
UpdateEnter(st, c) ==
    LET n_samples == NRows(c.X)
        w_k == VScale(Rat(1, n_samples), MatVec(Transpose(c.X), c.y_k))
        z_k == MatVec(c.D, w_k)
        cost == CostFunction(c.X, c.y_k, w_k, z_k, c.alpha)
    IN  [st EXCEPT !.pc = "for", !.w_k = w_k, !.z_k = z_k,
                   !.h_k = VZeros(Len(w_k)), !.cost = cost, !.costs = <<cost>>]

\* a loop that runs once too often: range(max_iter + 1)
UpdateForOneMore(st, c) ==
    IF st.it <= c.max_iter
    THEN [st EXCEPT !.pc = "w", !.t = st.it, !.t_bound = TRUE, !.it = st.it + 1]
    ELSE [st EXCEPT !.pc = "return"]

\* line 49: for t in range(max_iter)
UpdateFor(st, c) ==
    IF st.it < c.max_iter
    THEN [st EXCEPT !.pc = "w", !.t = st.it, !.t_bound = TRUE, !.it = st.it + 1]
    ELSE [st EXCEPT !.pc = "return"]

\* lines 51-57
UpdateW(st, c) ==
    LET w_k == IF c.tridiagonal
               THEN VAdd(c.inv_Xy_k,
                         SolveBanded(c.coef_matrix,
                                     MatVec(Transpose(c.D),
                                            VSub(VScale(c.rho, st.z_k), st.h_k))))
               ELSE VAdd(c.inv_Xy_k,
                         MatVec(c.inv_D,
                                VSub(st.z_k, VScale(RDiv(R(1), c.rho), st.h_k))))
    IN  [st EXCEPT !.pc = "zh", !.w_k = w_k, !.Dw_t = MatVec(c.D, w_k)]

\* lines 58-59; threshold = alpha / rho (line 48)
UpdateZH(st, c) ==
    LET threshold == RDiv(c.alpha, c.rho)
        z_k == SoftThreshold(VAdd(st.Dw_t, VScale(RDiv(R(1), c.rho), st.h_k)),
                             threshold)
    IN  [st EXCEPT !.pc = "cost", !.z_k = z_k,
                   !.h_k = VAdd(st.h_k, VScale(c.rho, VSub(st.Dw_t, z_k)))]

\* lines 62-66
UpdateCost(st, c) ==
    LET cost == CostFunction(c.X, c.y_k, st.w_k, st.z_k, c.alpha)
        stop == GapBelowTol(cost, st.cost, c.tol)
    IN  [st EXCEPT !.pc = IF stop THEN "return" ELSE "for",
                   !.pre_cost = st.cost, !.cost = cost,
                   !.broke = stop, !.costs = Append(st.costs, cost)]

\* line 68: return w_k, t; reading the unassigned t raises UnboundLocalError
UpdateReturn(st) ==
    IF st.t_bound THEN [st EXCEPT !.pc = "returned"]
    ELSE [st EXCEPT !.pc = "raised"]

UpdateStep(st, c) ==
    CASE st.pc = "pending" -> UpdateEnter(st, c)
      [] st.pc = "for" -> UpdateFor(st, c)
      [] st.pc = "w" -> UpdateW(st, c)
      [] st.pc = "zh" -> UpdateZH(st, c)
      [] st.pc = "cost" -> UpdateCost(st, c)
      [] st.pc = "return" -> UpdateReturn(st)

\* a whole call of _update, run alone
RECURSIVE UpdateRun(_, _)
UpdateRun(st, c) ==
    IF st.pc \in {"returned", "raised"} THEN st
    ELSE UpdateRun(UpdateStep(st, c), c)

----------------------------------------------------------------------------
(* admm.py: _admm.  The record admm holds the arguments, the structures    *)
(* computed once (coef_matrix, inv_Xy, inv_D) and the result; upd[k] is    *)
(* the activation of _update for target k.                                 *)

Idle == [pc |-> "idle"]

\* X.T.dot(X) / n_samples + rho * D.T.dot(D)
CoefMatrix(X, D, rho) ==
    MatAdd(MatScale(Rat(1, NRows(X)), MatMul(Transpose(X), X)),
           MatScale(rho, MatMul(Transpose(D), D)))

\* lines 120-138; a band _dia_to_tridiagonal does not find leaves its index
\* unassigned (UnboundLocalError), a singular matrix raises LinAlgError
AdmmSetup(a) ==
    LET n_samples == NRows(a.X)
        M == CoefMatrix(a.X, a.D, a.rho)
        Xy == MatScale(Rat(1, n_samples), MatMul(Transpose(a.X), a.y))
    IN  IF a.tridiagonal
        THEN IF ~({-1, 0, 1} \subseteq DiaOffsets(M))
                \/ Det(FromBanded(DiaToTridiagonal(M))) = R(0)
             THEN [a EXCEPT !.pc = "raised"]
             ELSE [a EXCEPT !.pc = "update",
                            !.coef_matrix = DiaToTridiagonal(M),
                            !.inv_Xy = SolveBandedMat(DiaToTridiagonal(M), Xy),
                            !.inv_D = a.D]
        ELSE IF Det(M) = R(0)
             THEN [a EXCEPT !.pc = "raised"]
             ELSE [a EXCEPT !.pc = "update",
                            !.coef_matrix = M,
                            !.inv_Xy = MatMul(Inv(M), Xy),
                            !.inv_D = MatMul(Inv(M), MatScale(a.rho, Transpose(a.D)))]

\* every task handed the first target's column of inv_Xy
UpdateArgsFirstColumn(a, k) ==
    [X |-> a.X, y_k |-> Col(a.y, k), D |-> a.D, coef_matrix |-> a.coef_matrix,
     inv_Xy_k |-> Col(a.inv_Xy, 1), inv_D |-> a.inv_D, alpha |-> a.alpha,
     rho |-> a.rho, max_iter |-> a.max_iter, tol |-> a.tol,
     tridiagonal |-> a.tridiagonal]

\* the arguments of the call for target k (lines 141-146): y[:, k] and
\* inv_Xy[:, k] are that target's columns, everything else is shared
UpdateArgs(a, k) ==
    [X |-> a.X, y_k |-> Col(a.y, k), D |-> a.D, coef_matrix |-> a.coef_matrix,
     inv_Xy_k |-> Col(a.inv_Xy, k), inv_D |-> a.inv_D, alpha |-> a.alpha,
     rho |-> a.rho, max_iter |-> a.max_iter, tol |-> a.tol,
     tridiagonal |-> a.tridiagonal]

\* lines 148-149: w_t[:, k], n_iter_[k] = results[k]
AssembleW(results) ==
    Vec([f \in 1..Len(results[1].w_k) |->
            Vec([k \in 1..Len(results) |-> results[k].w_k[f]])])

AssembleNIter(results) == Vec([k \in 1..Len(results) |-> results[k].t])

\* line 151: return np.squeeze(w_t.T), n_iter_.tolist()
AdmmReturn(a, results) ==
    [a EXCEPT !.pc = "returned",
              !.w_t = AssembleW(results),
              !.n_iter_ = AssembleNIter(results),
              !.coef = Squeeze(NdFromMatrix(Transpose(AssembleW(results))))]

\* a whole call of _admm, its targets solved one after the other
AdmmRun(a) ==
    LET s == AdmmSetup(a)
        results == Vec([k \in 1..NCols(a.y) |->
                           UpdateRun(UpdatePending, UpdateArgs(s, k))])
    IN  IF s.pc = "raised" THEN s
        ELSE IF \E k \in 1..NCols(a.y) : results[k].pc = "raised"
        THEN [s EXCEPT !.pc = "raised"]
        ELSE AdmmReturn(s, results)

AdmmCall(X, y, D, alpha, rho, tol, max_iter, tridiagonal) ==
    [pc |-> "call", X |-> X, y |-> y, D |-> D, alpha |-> alpha, rho |-> rho,
     tol |-> tol, max_iter |-> max_iter, tridiagonal |-> tridiagonal,
     coef_matrix |-> <<>>, inv_Xy |-> <<>>, inv_D |-> <<>>,
     w_t |-> <<>>, n_iter_ |-> <<>>, coef |-> [shape |-> <<>>, at |-> <<>>]]

----------------------------------------------------------------------------
(* The inputs of the ADMM specification.                                   *)

MaxIter == 3

AdmmData ==
    { [X |-> <<<<1, 2>>>>, y |-> <<<<3>>>>],
      [X |-> <<<<1, 2>>>>, y |-> <<<<1, 3>>>>],
      [X |-> <<<<2>>>>, y |-> <<<<1, -2>>>>],
      [X |-> <<<<1, 1>>, <<1, -1>>>>, y |-> <<<<1, 0>>, <<3, 1>>>>] }

\* the transform and whether it is banded: LassoADMM, FusedLassoADMM with
\* diagonal = False and with diagonal = True.  Data of several samples (whose
\* cost holds a square root) is paired with LassoADMM alone, which keeps every
\* numerator and denominator within TLC's 32-bit integers.
AdmmTransforms(X) ==
    { [D |-> LassoTransform(NCols(X)), tridiagonal |-> FALSE] }
    \cup (IF NRows(X) > 1 THEN {}
          ELSE { [D |-> FusedTransform(NCols(X), R(1), R(1)), tridiagonal |-> FALSE],
                 [D |-> FusedTransform(NCols(X), R(1), R(1)), tridiagonal |-> TRUE] })

AdmmAlphas == {Rat(1, 8), Rat(1, 2)}

AdmmTols == {R(0), Rat(1, 4), R(1)}

InitAdmm ==
    /\ \E d \in AdmmData, alpha \in AdmmAlphas, tol \in AdmmTols,
          max_iter \in 0..MaxIter :
         \E tr \in AdmmTransforms(d.X) :
            /\ admm = AdmmCall(RMat(d.X), RMat(d.y), tr.D, alpha, R(1), tol,
                               max_iter, tr.tridiagonal)
            /\ upd = [k \in 1..NCols(d.y) |-> UpdatePending]
    /\ path = Idle
    /\ ksvd = Idle
    /\ fused = Idle

Targets == 1..Len(upd)

DoAdmmSetup ==
    /\ admm.pc = "call"
    /\ admm' = AdmmSetup(admm)
    /\ UNCHANGED <<upd, path, ksvd, fused>>

UpdStep(k, pc) ==
    /\ admm.pc = "update"
    /\ upd[k].pc = pc
    /\ upd' = [upd EXCEPT ![k] = UpdateStep(upd[k], UpdateArgs(admm, k))]
    /\ UNCHANGED <<admm, path, ksvd, fused>>

DoUpdateEnter == \E k \in Targets : UpdStep(k, "pending")

DoUpdateFor == \E k \in Targets : UpdStep(k, "for")

DoUpdateW == \E k \in Targets : UpdStep(k, "w")

DoUpdateZH == \E k \in Targets : UpdStep(k, "zh")

DoUpdateCost == \E k \in Targets : UpdStep(k, "cost")

DoUpdateReturn == \E k \in Targets : UpdStep(k, "return")

\* an exception of a task is re-raised by Parallel (or by the direct call)
DoAdmmRaise ==
    /\ admm.pc = "update"
    /\ \E k \in Targets : upd[k].pc = "raised"
    /\ admm' = [admm EXCEPT !.pc = "raised"]
    /\ UNCHANGED <<upd, path, ksvd, fused>>

DoAdmmReturn ==
    /\ admm.pc = "update"
    /\ \A k \in Targets : upd[k].pc = "returned"
    /\ admm' = AdmmReturn(admm, upd)
    /\ UNCHANGED <<upd, path, ksvd, fused>>

NextAdmm ==
    \/ DoAdmmSetup
    \/ DoUpdateEnter
    \/ DoUpdateFor
    \/ DoUpdateW
    \/ DoUpdateZH
    \/ DoUpdateCost
    \/ DoUpdateReturn
    \/ DoAdmmRaise
    \/ DoAdmmReturn

SpecAdmm == InitAdmm /\ [][NextAdmm]_vars

----------------------------------------------------------------------------
(* Claims about _update and _admm, checked under SpecAdmm.                 *)

\* whether iteration i (from 0) of activation st passed the gap test:
\* costs[1] is the cost of the initial state, costs[i + 2] that of iteration i
GapMet(st, i) == GapBelowTol(st.costs[i + 2], st.costs[i + 1], admm.tol)

\* the state after iterations 0..n of the update, leaving the gap test out
RECURSIVE IterateOnly(_, _, _)
IterateOnly(st, c, n) ==
    IF n < 0 THEN st
    ELSE IterateOnly(UpdateZH(UpdateW(st, c), c), c, n - 1)

\* C1: with max_iter >= 1, _update never raises, and what it returns is the
\* first iteration t whose cost gap is below tol (or max_iter - 1 when none
\* is), after exactly t + 1 iterations, with the w computed in iteration t;
\* the returned index lies in 0..max_iter-1.
C1_StopsAtFirstGap ==
    \A k \in Targets :
        admm.max_iter >= 1 =>
            /\ upd[k].pc # "raised"
            /\ upd[k].pc = "returned" =>
                 LET st == upd[k]
                     c == UpdateArgs(admm, k)
                 IN  /\ st.t \in 0..(admm.max_iter - 1)
                     /\ Len(st.costs) = st.t + 2
                     /\ \A i \in 0..(st.t - 1) : ~GapMet(st, i)
                     /\ GapMet(st, st.t) \/ st.t = admm.max_iter - 1
                     /\ st.broke = GapMet(st, st.t)
                     /\ st.w_k = IterateOnly(UpdateEnter(UpdatePending, c), c, st.t).w_k

\* C1 witness: a run that stopped on the gap test strictly inside its budget,
\* after at least one iteration that failed the test
C1_Witness ==
    \E k \in Targets :
        /\ upd[k].pc = "returned"
        /\ upd[k].broke
        /\ upd[k].t > 0
        /\ upd[k].t < admm.max_iter - 1

\* C2 (as claimed): for one max_iter, a run that stopped on the gap test and
\* a run that exhausted the budget never return the same iteration count.
C2_CountTellsConvergence ==
    \A k1, k2 \in Targets :
        /\ upd[k1].pc = "returned" /\ upd[k1].broke
        /\ upd[k2].pc = "returned" /\ ~upd[k2].broke
        => upd[k1].t # upd[k2].t

\* C8 (as claimed): a run in which the gap test never succeeds ends by
\* returning (w, iteration count), whatever max_iter >= 0 is; it never raises.
C8_NonConvergenceReturns ==
    \A k \in Targets :
        /\ upd[k].pc \in {"returned", "raised"}
        /\ \A i \in 0..(Len(upd[k].costs) - 2) : ~GapMet(upd[k], i)
        => upd[k].pc = "returned"

\* the coefficient of feature f for target k, read from the array _admm returns
\* (shape (n_targets, n_features) with the axes of length 1 squeezed away)
ReportedCoef(a, k, f) ==
    IF Len(a.coef.shape) = 2 THEN a.coef.at[<<k, f>>]
    ELSE IF Len(a.coef.shape) = 0 THEN a.coef.at[<<>>]
    ELSE IF NCols(a.y) = 1 THEN a.coef.at[<<f>>]
    ELSE a.coef.at[<<k>>]

\* _admm called on column k of y alone, as a single-target problem
SoloRun(k) ==
    AdmmRun(AdmmCall(admm.X, [i \in 1..NRows(admm.y) |-> <<admm.y[i][k]>>],
                     admm.D, admm.alpha, admm.rho, admm.tol, admm.max_iter,
                     admm.tridiagonal))

C3_MatchesSolo ==
    admm.pc = "returned" =>
        \A k \in Targets :
            LET solo == SoloRun(k)
            IN  /\ solo.pc = "returned"
                /\ admm.n_iter_[k] = solo.n_iter_[1]
                /\ Col(admm.w_t, k) = Col(solo.w_t, 1)
                /\ \A f \in 1..NCols(admm.X) :
                       ReportedCoef(admm, k, f) = ReportedCoef(solo, 1, f)

C3_SharedUntouched ==
    (admm.pc = "update" /\ upd' # upd) =>
        /\ admm'.X = admm.X /\ admm'.y = admm.y /\ admm'.D = admm.D
        /\ admm'.coef_matrix = admm.coef_matrix
        /\ admm'.inv_Xy = admm.inv_Xy /\ admm'.inv_D = admm.inv_D

\* C3: under every interleaving of the per-target steps, what _admm reports
\* for target k (coefficients and iteration count, in slot k) is what a run on
\* column k of y alone produces, and no step of a target changes X, y, D,
\* coef_matrix, inv_Xy or inv_D.
C3_TargetsIndependent == []C3_MatchesSolo /\ [][C3_SharedUntouched]_vars

\* C3 witness: a multi-target call has returned with targets whose
\* coefficients and iteration counts differ
C3_Witness ==
    /\ admm.pc = "returned"
    /\ Len(upd) >= 2
    /\ admm.n_iter_[1] # admm.n_iter_[2]
    /\ Col(admm.w_t, 1) # Col(admm.w_t, 2)

----------------------------------------------------------------------------
(* ksvd.py: _ksvd.  The record ksvd holds the arguments and the locals:    *)
(* after lines 61-63 Y is n_features x n_samples, X is n_components x      *)
(* n_samples and A is n_features x n_components (atom j is column j).      *)
(* errors[i] is kept as [rad, rat] standing for sqrt(rad) + rat, like the  *)
(* ADMM cost.  sparse_encode and np.linalg.svd are library calls: each is  *)
(* any value of a small set that satisfies the call's contract.            *)

None == <<>>

ISqrt(n) == CHOOSE r \in 0..n : r * r = n

\* np.sqrt of a rational whose numerator and denominator are squares
RSqrt(q) == <<ISqrt(q[1]), ISqrt(q[2])>>

Diag(v) == [i \in 1..Len(v) |-> [j \in 1..Len(v) |-> IF i = j THEN v[i] ELSE R(0)]]

DiagOf(M) == [i \in 1..Len(M) |-> M[i][i]]

MatSub(A, B) == [i \in 1..NRows(A) |-> VSub(A[i], B[i])]

\* np.linalg.norm(M, 'fro'), as [rad, rat]
FroNorm(M) ==
    [rad |-> RSum([i \in 1..NRows(M) |-> VDot(M[i], M[i])]), rat |-> R(0)]

\* line 54: np.dot(A, np.diag(1. / np.sqrt(np.diag(np.dot(A.T, A)))))
NormalizeDictionary(A) ==
    LET gram == DiagOf(MatMul(Transpose(A), A))
    IN  MatMul(A, Diag([f \in 1..Len(gram) |-> RDiv(R(1), RSqrt(gram[f]))]))

\* lines 50-66; A.dot(X) of mismatched shapes raises ValueError
KsvdInit(s) ==
    LET A0 == IF s.dict_init = None THEN SubSeq(s.Y, 1, s.n_components)
              ELSE s.dict_init
        A1 == NormalizeDictionary(A0)
        X0 == IF s.code_init = None
              THEN [i \in 1..NRows(s.Y) |-> VZeros(NCols(A1))]
              ELSE s.code_init
        Yt == Transpose(s.Y)
        Xt == Transpose(X0)
        At == Transpose(A1)
    IN  IF NCols(At) # NRows(Xt) THEN [s EXCEPT !.pc = "raised"]
        ELSE [s EXCEPT !.pc = "for", !.Y = Yt, !.X = Xt, !.A = At,
                       !.errors = <<FroNorm(MatSub(Yt, MatMul(At, Xt)))>>,
                       !.k = -1]

\* line 67: for k in range(max_iter)
KsvdFor(s) ==
    IF s.it < s.max_iter
    THEN [s EXCEPT !.pc = "encode", !.k = s.it, !.it = s.it + 1]
    ELSE [s EXCEPT !.pc = "return"]

\* the codes sparse_encode may return: one column per sample, at most k0
\* non-zero entries in each
CodeValues == {R(0), R(1)}

SparseColumns(n_components, k0) ==
    {c \in [1..n_components -> CodeValues] :
        Cardinality({i \in 1..n_components : c[i] # R(0)}) <= k0}

SparseCodes(n_components, n_samples, k0) ==
    {Transpose(cols) : cols \in [1..n_samples -> SparseColumns(n_components, k0)]}

\* line 68: X = sparse_encode(Y.T, A.T, ...).T, code being what the encoder returned
KsvdEncode(s, code) == [s EXCEPT !.pc = "atom", !.X = code, !.j = 1]

\* x = X[j, :] != 0 (line 71), as the set of the samples selected
Support(X, j) == {i \in 1..NCols(X) : X[j][i] # R(0)}

\* the position of sample i among the selected ones
Rank(S, i) == Cardinality({m \in S : m <= i})

\* what np.linalg.svd may return for a matrix of n rows and m columns, as far
\* as line 78-79 read it: U[:, 0] and V[0, :] of unit norm, s[0] >= 0
UnitVectors(n) ==
    {v \in [1..n -> {R(0), R(1), R(-1)}] : VDot(v, v) = R(1) /\ RSum(v) = R(1)}
    \cup {v \in [1..n -> {Rat(3, 5), Rat(4, 5)}] : VDot(v, v) = R(1) /\ v[1] = Rat(3, 5)}

SingularValues == {R(2)}

SvdResults(n, m) ==
    {[U0 |-> u, s0 |-> sv, V0 |-> v] :
        u \in UnitVectors(n), sv \in SingularValues, v \in UnitVectors(m)}

\* a starved atom re-initialised from the first sample instead of skipped
KsvdAtomReinit(s, svd) ==
    LET j == s.j
        S == Support(s.X, j)
    IN  [s EXCEPT !.pc = IF j < s.n_components THEN "atom" ELSE "error",
                  !.j = j + 1,
                  !.A = [f \in 1..NRows(s.A) |->
                            [c \in 1..NCols(s.A) |->
                                IF c # j THEN s.A[f][c]
                                ELSE IF S = {} THEN s.Y[f][1] ELSE svd.U0[f]]],
                  !.X = [r \in 1..NRows(s.X) |->
                            [i \in 1..NCols(s.X) |->
                                IF r = j /\ i \in S
                                THEN RMul(svd.s0, svd.V0[Rank(S, i)])
                                ELSE s.X[r][i]]]]

\* lines 70-79, the step for atom j: svd is what np.linalg.svd returned for
\* error = Y[:, x] - np.dot(A, X[:, x])
KsvdAtom(s, svd) ==
    LET j == s.j
        S == Support(s.X, j)
    IN  IF S = {}
        THEN [s EXCEPT !.pc = IF j < s.n_components THEN "atom" ELSE "error",
                       !.j = j + 1]
        ELSE [s EXCEPT !.pc = IF j < s.n_components THEN "atom" ELSE "error",
                       !.j = j + 1,
                       !.A = [f \in 1..NRows(s.A) |->
                                 [c \in 1..NCols(s.A) |->
                                     IF c = j THEN svd.U0[f] ELSE s.A[f][c]]],
                       !.X = [r \in 1..NRows(s.X) |->
                                 [i \in 1..NCols(s.X) |->
                                     IF r = j /\ i \in S
                                     THEN RMul(svd.s0, svd.V0[Rank(S, i)])
                                     ELSE s.X[r][i]]]]

\* lines 81-83
KsvdError(s) ==
    LET e == FroNorm(MatSub(s.Y, MatMul(s.A, s.X)))
        stop == GapBelowTol(e, s.errors[Len(s.errors)], s.tol)
    IN  [s EXCEPT !.pc = IF stop THEN "return" ELSE "for",
                  !.errors = Append(s.errors, e),
                  !.completed = s.completed + 1]

\* returning k instead of k + 1
KsvdReturnIndex(s) == [s EXCEPT !.pc = "returned", !.n_iter = s.k]

\* line 85: return A.T, X, errors, k + 1
KsvdReturn(s) == [s EXCEPT !.pc = "returned", !.n_iter = s.k + 1]

KsvdCall(Y, n_components, k0, tol, max_iter, code_init, dict_init) ==
    [pc |-> "call", Y |-> Y, n_components |-> n_components, k0 |-> k0,
     tol |-> tol, max_iter |-> max_iter, code_init |-> code_init,
     dict_init |-> dict_init, A |-> <<>>, X |-> <<>>, errors |-> <<>>,
     k |-> 0, it |-> 0, j |-> 0, completed |-> 0, n_iter |-> 0]

----------------------------------------------------------------------------
(* The inputs of the K-SVD specification.  Every column of the initial     *)
(* dictionary has a sum of squares that is a non-zero perfect square, so   *)
(* that line 54 stays within the rationals.                                *)

MaxKsvdIter == 2

KsvdData ==
    { [Y |-> <<<<3, 0>>, <<4, 1>>>>, n_components |-> 2,
       dict_init |-> None, code_init |-> None],
      [Y |-> <<<<2, 0>>, <<0, 3>>>>, n_components |-> 2,
       dict_init |-> None, code_init |-> RMat(<<<<1, 0>>, <<0, 1>>>>)],
      [Y |-> <<<<1, 0>>, <<0, 2>>>>, n_components |-> 2,
       dict_init |-> RMat(<<<<3, 4>>, <<4, 3>>>>),
       code_init |-> RMat(<<<<1, 0>>, <<0, 1>>>>)],
      [Y |-> <<<<1, 1>>, <<2, 0>>>>, n_components |-> 1,
       dict_init |-> RMat(<<<<3, 4>>>>), code_init |-> RMat(<<<<1>>, <<0>>>>)],
      [Y |-> <<<<1, 1>>, <<2, 0>>>>, n_components |-> 1,
       dict_init |-> RMat(<<<<3, 4>>>>), code_init |-> None],
      [Y |-> <<<<1>>, <<2>>>>, n_components |-> 2,
       dict_init |-> RMat(<<<<3>>, <<4>>>>),
       code_init |-> RMat(<<<<0, 1>>, <<1, 0>>>>)] }

KsvdTols == {R(0), Rat(1, 2), R(2)}

InitKsvd ==
    /\ \E d \in KsvdData, tol \in KsvdTols, max_iter \in 0..MaxKsvdIter :
         ksvd = KsvdCall(RMat(d.Y), d.n_components, 1, tol, max_iter,
                         d.code_init, d.dict_init)
    /\ admm = Idle
    /\ upd = <<>>
    /\ path = Idle
    /\ fused = Idle

DoKsvdInit ==
    /\ ksvd.pc = "call"
    /\ ksvd' = KsvdInit(ksvd)
    /\ UNCHANGED <<admm, upd, path, fused>>

DoKsvdFor ==
    /\ ksvd.pc = "for"
    /\ ksvd' = KsvdFor(ksvd)
    /\ UNCHANGED <<admm, upd, path, fused>>

DoKsvdEncode ==
    /\ ksvd.pc = "encode"
    /\ \E code \in SparseCodes(ksvd.n_components, NCols(ksvd.Y), ksvd.k0) :
         ksvd' = KsvdEncode(ksvd, code)
    /\ UNCHANGED <<admm, upd, path, fused>>

\* an empty support is never handed to np.linalg.svd
NoSvd == [U0 |-> <<>>, s0 |-> R(0), V0 |-> <<>>]

DoKsvdAtom ==
    /\ ksvd.pc = "atom"
    /\ \E svd \in IF Support(ksvd.X, ksvd.j) = {} THEN {NoSvd}
                  ELSE SvdResults(NRows(ksvd.Y),
                                  Cardinality(Support(ksvd.X, ksvd.j))) :
         ksvd' = KsvdAtom(ksvd, svd)
    /\ UNCHANGED <<admm, upd, path, fused>>

DoKsvdError ==
    /\ ksvd.pc = "error"
    /\ ksvd' = KsvdError(ksvd)
    /\ UNCHANGED <<admm, upd, path, fused>>

DoKsvdReturn ==
    /\ ksvd.pc = "return"
    /\ ksvd' = KsvdReturn(ksvd)
    /\ UNCHANGED <<admm, upd, path, fused>>

NextKsvd ==
    \/ DoKsvdInit
    \/ DoKsvdFor
    \/ DoKsvdEncode
    \/ DoKsvdAtom
    \/ DoKsvdError
    \/ DoKsvdReturn

SpecKsvd == InitKsvd /\ [][NextKsvd]_vars

----------------------------------------------------------------------------
(* Claims about _ksvd, checked under SpecKsvd.                             *)

\* C4: _ksvd returns n_iter equal to the number of outer iterations whose
\* body ran to its end, with an error trace of n_iter + 1 entries;
\* 0 <= n_iter <= max_iter, and max_iter = 0 gives n_iter = 0 and one entry.
C4_IterationCount ==
    ksvd.pc = "returned" =>
        /\ ksvd.n_iter = ksvd.completed
        /\ Len(ksvd.errors) = ksvd.n_iter + 1
        /\ ksvd.n_iter \in 0..ksvd.max_iter
        /\ ksvd.max_iter = 0 => (ksvd.n_iter = 0 /\ Len(ksvd.errors) = 1)

\* C4 witness: a run stopped by the tolerance test after at least one
\* iteration and before its budget ran out
C4_Witness ==
    /\ ksvd.pc = "returned"
    /\ ksvd.n_iter >= 1
    /\ ksvd.n_iter < ksvd.max_iter

\* C7 (as claimed): before the first iteration every atom (column j of the
\* transposed dictionary A) has a sum of squares equal to 1.
C7_AtomsUnitNorm ==
    (ksvd.pc = "for" /\ ksvd.it = 0) =>
        \A j \in 1..NCols(ksvd.A) : VDot(Col(ksvd.A, j), Col(ksvd.A, j)) = R(1)

C10_AtomStepFrame ==
    ksvd.pc = "atom" =>
        LET j == ksvd.j
            S == Support(ksvd.X, j)
        IN  /\ ksvd'.Y = ksvd.Y
            /\ ksvd'.dict_init = ksvd.dict_init
            /\ ksvd'.code_init = ksvd.code_init
            /\ \A c \in 1..NCols(ksvd.A) : c # j => Col(ksvd'.A, c) = Col(ksvd.A, c)
            /\ \A r \in 1..NRows(ksvd.X), i \in 1..NCols(ksvd.X) :
                   (r # j \/ i \notin S) => ksvd'.X[r][i] = ksvd.X[r][i]
            /\ S = {} => (ksvd'.A = ksvd.A /\ ksvd'.X = ksvd.X)

\* C10: the step for atom j with support S changes only column j of A (atom
\* j) and the entries of row j of X on S; Y, the other atoms, the other code
\* rows and row j outside S keep their values, and with S empty A and X are
\* left as they are.
C10_AtomUpdateFrame == [][C10_AtomStepFrame]_vars

\* C10 witness: the step for atom 1 has acted on the support {sample 1} (the
\* entry 2 is s[0] * V[0, 0], which no encoder output holds), left its entry
\* for sample 2 at zero and left atom 2's code on sample 2 in place
C10_Witness ==
    /\ ksvd.pc = "atom"
    /\ ksvd.j = 2
    /\ ksvd.X[1][1] = R(2)
    /\ ksvd.X[1][2] = R(0)
    /\ ksvd.X[2][2] # R(0)

----------------------------------------------------------------------------
(* admm.py: FusedLassoADMM.generate_transform_matrix as a call of its own. *)

\* lines 250-255: the matrix, as a dia_matrix when diagonal is set
GenerateTransformMatrix(s) ==
    [s EXCEPT !.pc = "returned",
              !.D = [format |-> IF s.diagonal THEN "dia" ELSE "dense",
                     M |-> FusedTransform(s.n_features, s.sparse_coef, s.fused_coef)]]

MaxFeatures == 3

FusedCoefs == {R(-1), R(0), Rat(1, 2), R(1), R(2)}

InitFused ==
    /\ \E n \in 1..MaxFeatures, sc \in FusedCoefs, fc \in FusedCoefs, dg \in BOOLEAN :
         fused = [pc |-> "call", n_features |-> n, sparse_coef |-> sc,
                  fused_coef |-> fc, diagonal |-> dg,
                  D |-> [format |-> "none", M |-> <<>>]]
    /\ admm = Idle
    /\ upd = <<>>
    /\ path = Idle
    /\ ksvd = Idle

DoGenerateTransformMatrix ==
    /\ fused.pc = "call"
    /\ fused' = GenerateTransformMatrix(fused)
    /\ UNCHANGED <<admm, upd, path, ksvd>>

NextFused == DoGenerateTransformMatrix

SpecFused == InitFused /\ [][NextFused]_vars

\* C9 (as claimed): D[i][i] = sparse_coef + fused_coef in every row, the first
\* included, D[i][i-1] = -fused_coef for i >= 2 (counting rows from 1), every
\* other entry 0; with fused_coef = 0, D = sparse_coef * I.
C9_FusedDiagonalEveryRow ==
    fused.pc = "returned" =>
        \A i, j \in 1..fused.n_features :
            fused.D.M[i][j] =
                IF i = j THEN RAdd(fused.sparse_coef, fused.fused_coef)
                ELSE IF j = i - 1 THEN RNeg(fused.fused_coef)
                ELSE R(0)

\* C9 (amended): the first row of D holds sparse_coef alone on the diagonal;
\* D[i][i] = sparse_coef + fused_coef and D[i][i-1] = -fused_coef for the
\* rows i >= 2 (counting from 1), every other entry is 0; with fused_coef = 0,
\* D = sparse_coef * I.
C9_FusedFirstRowSparseOnly ==
    fused.pc = "returned" =>
        /\ \A i, j \in 1..fused.n_features :
               fused.D.M[i][j] =
                   IF i = j /\ i = 1 THEN fused.sparse_coef
                   ELSE IF i = j THEN RAdd(fused.sparse_coef, fused.fused_coef)
                   ELSE IF j = i - 1 THEN RNeg(fused.fused_coef)
                   ELSE R(0)
        /\ fused.fused_coef = R(0) =>
               fused.D.M = MatScale(fused.sparse_coef, RMat(Eye(fused.n_features, 0)))

\* C9 witness: a transform of several rows built with both coefficients
\* non-zero, so that the first row differs from the others
C9_Witness ==
    /\ fused.pc = "returned"
    /\ fused.n_features >= 2
    /\ fused.fused_coef # R(0)
    /\ fused.sparse_coef # R(0)
    /\ fused.D.M[1][1] # fused.D.M[2][2]

----------------------------------------------------------------------------
(* admm.py: GeneralizedLasso.fit for LassoADMM, and admm_path.  y is kept  *)
(* as [ndim, cols]: cols is n_samples x n_targets, a 1-D y has one column. *)
(* Only the branch of an explicit alphas list is modelled; the grid of     *)
(* alphas = None comes from scikit-learn's _alpha_grid.                    *)

Mean(v) == RDiv(RSum(v), R(Len(v)))

\* _preprocess_data with fit_intercept = True, normalize = False: every
\* column has its mean subtracted
Center(M) ==
    [i \in 1..NRows(M) |-> [j \in 1..NCols(M) |-> RSub(M[i][j], Mean(Col(M, j)))]]

\* whether numpy broadcasts an array of shape src to shape dst
BroadcastOk(src, dst) ==
    /\ Len(src) <= Len(dst)
    /\ \A d \in 1..Len(src) : src[d] \in {1, dst[d + Len(dst) - Len(src)]}

\* the index of the source that lands on index idx of the destination
BroadcastIndex(src, dst, idx) ==
    [d \in 1..Len(src) |->
        IF src[d] = 1 THEN 1 ELSE idx[d + Len(dst) - Len(src)]]

BroadcastTo(a, dst) ==
    [shape |-> dst,
     at |-> [idx \in Indices(dst) |-> a.at[BroadcastIndex(a.shape, dst, idx)]]]

\* the larger of two shapes that broadcast against each other
BroadcastShape(s1, s2) ==
    LET n == IF Len(s1) > Len(s2) THEN Len(s1) ELSE Len(s2)
        dim(sh, d) == IF d + Len(sh) - n >= 1 THEN sh[d + Len(sh) - n] ELSE 1
    IN  [d \in 1..n |-> IF dim(s1, d) = 1 THEN dim(s2, d) ELSE dim(s1, d)]

\* _set_intercept: self.coef_ = self.coef_ / X_scale, X_scale being
\* np.ones(n_features)
ScaleCoef(coef, n_features) ==
    LET b == BroadcastTo(coef, BroadcastShape(coef.shape, <<n_features>>))
    IN  [shape |-> b.shape,
         at |-> [idx \in Indices(b.shape) |-> RDiv(b.at[idx], R(1))]]

\* lines 170-197 for LassoADMM(alpha, rho, max_iter, tol), the other
\* parameters keeping their defaults (fit_intercept = True,
\* tridiagonal = False): the call of _admm that fit makes
FitEnter(X, y, alpha, rho, max_iter, tol) ==
    AdmmCall(Center(X), Center(y.cols), LassoTransform(NCols(X)),
             alpha, rho, tol, max_iter, FALSE)

\* lines 197-206: what fit leaves in the estimator once _admm has ended as a
FitLeave(a, X, y) ==
    IF a.pc = "raised" THEN [pc |-> "raised"]
    ELSE [pc |-> "returned",
          coef_ |-> ScaleCoef(a.coef, NCols(X)),
          n_iter_ |-> IF NCols(y.cols) = 1 THEN a.n_iter_[1] ELSE a.n_iter_]

\* lines 170-206, a whole call of fit
LassoFit(X, y, alpha, rho, max_iter, tol) ==
    LET a == AdmmRun(FitEnter(X, y, alpha, rho, max_iter, tol))
    IN  FitLeave(a, X, y)

RECURSIVE Insert(_, _)
Insert(v, sorted) ==
    IF sorted = <<>> THEN <<v>>
    ELSE IF RLe(v, Head(sorted)) THEN <<v>> \o sorted
    ELSE <<Head(sorted)>> \o Insert(v, Tail(sorted))

\* np.sort: ascending
RECURSIVE Sort(_)
Sort(seq) == IF seq = <<>> THEN <<>> ELSE Insert(Head(seq), Sort(Tail(seq)))

Reverse(seq) == [i \in 1..Len(seq) |-> seq[Len(seq) + 1 - i]]

\* the sort of line 83 without its reversal
SortAlphasAscending(alphas) == Sort(alphas)

\* line 83: np.sort(alphas)[::-1]
SortAlphas(alphas) == Reverse(Sort(alphas))

NdZeros(shape) == [shape |-> shape, at |-> [idx \in Indices(shape) |-> R(0)]]

\* lines 72-89
PathInit(s) ==
    LET n_features == NCols(s.X)
        multi_output == s.y.ndim # 1
        alphas == SortAlphas(s.alphas)
        n_alphas == Len(alphas)
    IN  [s EXCEPT !.pc = "for", !.multi_output = multi_output,
                  !.alphas = alphas, !.n_alphas = n_alphas,
                  !.coefs = IF ~multi_output
                            THEN NdZeros(<<n_features, n_alphas>>)
                            ELSE NdZeros(<<n_features, NCols(s.y.cols), n_alphas>>),
                  !.n_iters = <<>>, !.i = 0]

Front(seq) == SubSeq(seq, 1, Len(seq) - 1)

\* coefs[..., i] = coef_ (i counted from 1)
AssignLast(coefs, i, coef_) ==
    [shape |-> coefs.shape,
     at |-> [idx \in Indices(coefs.shape) |->
                IF idx[Len(idx)] = i
                THEN coef_.at[BroadcastIndex(coef_.shape, Front(coefs.shape), Front(idx))]
                ELSE coefs.at[idx]]]

\* lines 91-93, a pass of the loop up to the call of _admm inside fit
PathFit(s) ==
    [s EXCEPT !.pc = "fit", !.calls = Append(s.calls, s.alphas[s.i + 1])]

\* lines 93-95, the rest of the pass once _admm has ended as a; an exception
\* of fit, or of the assignment when coef_ does not broadcast to
\* coefs[..., i], ends the call
PathStore(s, a) ==
    LET clf == FitLeave(a, s.X, s.y)
    IN  IF clf.pc = "raised" \/ ~BroadcastOk(clf.coef_.shape, Front(s.coefs.shape))
        THEN [s EXCEPT !.pc = "raised"]
        ELSE [s EXCEPT !.pc = IF s.i + 1 < Len(s.alphas) THEN "for" ELSE "return",
                       !.i = s.i + 1,
                       !.coefs = AssignLast(s.coefs, s.i + 1, clf.coef_),
                       !.n_iters = Append(s.n_iters, clf.n_iter_)]

\* line 97
PathReturn(s) == [s EXCEPT !.pc = "returned"]

PathCall(X, y, alphas, rho, max_iter, tol) ==
    [pc |-> "call", X |-> X, y |-> y, alphas_arg |-> alphas, alphas |-> alphas,
     rho |-> rho, max_iter |-> max_iter, tol |-> tol, multi_output |-> FALSE,
     n_alphas |-> 0, coefs |-> NdZeros(<<>>), n_iters |-> <<>>, i |-> 0,
     calls |-> <<>>]

MaxAlphas == 2

MaxPathIter == 2

PathData ==
    { [X |-> <<<<2>>, <<0>>>>, ndim |-> 1, y |-> <<<<3>>, <<1>>>>],
      [X |-> <<<<2, 1>>, <<0, 1>>>>, ndim |-> 1, y |-> <<<<3>>, <<1>>>>],
      [X |-> <<<<2, 3>>, <<2, 1>>, <<0, 3>>, <<0, 1>>>>, ndim |-> 2,
       y |-> <<<<3, 1>>, <<1, -1>>, <<1, 1>>, <<-1, -1>>>>],
      [X |-> <<<<2, 3, 1>>, <<2, 1, -1>>, <<0, 3, -1>>, <<0, 1, 1>>>>, ndim |-> 2,
       y |-> <<<<3, 1>>, <<1, -1>>, <<1, 1>>, <<-1, -1>>>>] }

PathAlphas == {Rat(1, 8), Rat(1, 2)}

PathTols == {R(0), Rat(1, 4)}

AlphaLists == UNION { [1..n -> PathAlphas] : n \in 1..MaxAlphas }

InitPath ==
    /\ \E d \in PathData, alphas \in AlphaLists, tol \in PathTols,
          max_iter \in 0..MaxPathIter :
         path = PathCall(RMat(d.X), [ndim |-> d.ndim, cols |-> RMat(d.y)],
                         alphas, R(1), max_iter, tol)
    /\ admm = Idle
    /\ upd = <<>>
    /\ ksvd = Idle
    /\ fused = Idle

DoPathInit ==
    /\ path.pc = "call"
    /\ path' = PathInit(path)
    /\ UNCHANGED <<admm, upd, ksvd, fused>>

DoPathFit ==
    /\ path.pc = "for"
    /\ path' = PathFit(path)
    /\ admm' = FitEnter(path.X, path.y, path.alphas[path.i + 1], path.rho,
                        path.max_iter, path.tol)
    /\ upd' = [k \in 1..NCols(path.y.cols) |-> UpdatePending]
    /\ UNCHANGED <<ksvd, fused>>

DoPathStore ==
    /\ path.pc = "fit"
    /\ admm.pc \in {"returned", "raised"}
    /\ path' = PathStore(path, admm)
    /\ admm' = Idle
    /\ upd' = <<>>
    /\ UNCHANGED <<ksvd, fused>>

DoPathReturn ==
    /\ path.pc = "return"
    /\ path' = PathReturn(path)
    /\ UNCHANGED <<admm, upd, ksvd, fused>>

\* the fit of each pass runs _admm, its targets interleaved
NextPath ==
    \/ DoPathInit
    \/ DoPathFit
    \/ DoAdmmSetup
    \/ DoUpdateEnter
    \/ DoUpdateFor
    \/ DoUpdateW
    \/ DoUpdateZH
    \/ DoUpdateCost
    \/ DoUpdateReturn
    \/ DoAdmmRaise
    \/ DoAdmmReturn
    \/ DoPathStore
    \/ DoPathReturn

SpecPath == InitPath /\ [][NextPath]_vars

\* the solver run of admm_path at alpha: _admm on the centred data
PathSolve(alpha) ==
    AdmmRun(AdmmCall(Center(path.X), Center(path.y.cols),
                     LassoTransform(NCols(path.X)), alpha, path.rho, path.tol,
                     path.max_iter, FALSE))

\* the coefficient of feature f for target t that run ends with
SolvedCoef(alpha, f, t) ==
    LET a == PathSolve(alpha)
    IN  IF a.pc = "returned" THEN a.w_t[f][t] ELSE None

\* C5: the returned coefficients have shape n_features x n_targets x n_alphas
\* for a y of several targets, entry [f][t][i] being the coefficient of
\* feature f for target t of the solver run at alphas[i]; for a 1-D y the
\* shape is n_features x n_alphas and entry [f][i] is the coefficient of
\* feature f at alphas[i].
C5_StackedLayout ==
    path.pc = "returned" =>
        LET n_features == NCols(path.X)
            n_targets == NCols(path.y.cols)
            n_alphas == Len(path.alphas)
        IN  IF path.y.ndim = 1
            THEN /\ path.coefs.shape = <<n_features, n_alphas>>
                 /\ \A f \in 1..n_features, i \in 1..n_alphas :
                        path.coefs.at[<<f, i>>] = SolvedCoef(path.alphas[i], f, 1)
            ELSE /\ path.coefs.shape = <<n_features, n_targets, n_alphas>>
                 /\ \A f \in 1..n_features, t \in 1..n_targets, i \in 1..n_alphas :
                        path.coefs.at[<<f, t, i>>] = SolvedCoef(path.alphas[i], f, t)

Occurrences(seq, v) == Cardinality({i \in 1..Len(seq) : seq[i] = v})

PathStarted == path.pc \notin {"idle", "call"}

\* the solver has been run once per alpha, in the order of the returned
\* alphas, and what was stored at i came from the fit at alphas[i] (the
\* stored entries do not change while a fit is running, so they are
\* compared in the states between the fits)
PathRunsInOrder ==
    /\ path.calls = SubSeq(path.alphas, 1, Len(path.calls))
    /\ Len(path.n_iters) = path.i
    /\ Len(path.calls) = IF path.pc \in {"fit", "raised"} THEN path.i + 1 ELSE path.i
    /\ path.pc \in {"return", "returned"} => path.i = Len(path.alphas)
    /\ path.pc # "fit" =>
          \A i \in 1..path.i :
              LET clf == LassoFit(path.X, path.y, path.alphas[i], path.rho,
                                  path.max_iter, path.tol)
              IN  /\ path.n_iters[i] = clf.n_iter_
                  /\ \A idx \in Indices(path.coefs.shape) :
                        idx[Len(idx)] = i =>
                            path.coefs.at[idx] =
                                BroadcastTo(clf.coef_, Front(path.coefs.shape)).at[Front(idx)]

\* C6 (as claimed): for every list of alphas the returned alphas are strictly
\* descending, and the solver runs once per returned alpha in that order,
\* coefs[..., i] and n_iters[i] belonging to alphas[i].
C6_StrictlyDescending ==
    PathStarted =>
        /\ \A i \in 1..(Len(path.alphas) - 1) : RLt(path.alphas[i + 1], path.alphas[i])
        /\ PathRunsInOrder

\* C6 (amended): the returned alphas are the given values, each as often as
\* it was given, in non-increasing order (strictly descending when the given
\* values are pairwise distinct), and the solver runs once per returned alpha
\* in that order, coefs[..., i] and n_iters[i] coming from the fit at
\* alphas[i].
C6_SortedDescending ==
    PathStarted =>
        /\ Len(path.alphas) = Len(path.alphas_arg)
        /\ \A v \in PathAlphas :
              Occurrences(path.alphas, v) = Occurrences(path.alphas_arg, v)
        /\ \A i \in 1..(Len(path.alphas) - 1) : RLe(path.alphas[i + 1], path.alphas[i])
        /\ (\A v \in PathAlphas : Occurrences(path.alphas_arg, v) <= 1) =>
              \A i \in 1..(Len(path.alphas) - 1) :
                  RLt(path.alphas[i + 1], path.alphas[i])
        /\ PathRunsInOrder

\* C6 witness: a path returned for alphas given in ascending order
C6_Witness ==
    /\ path.pc = "returned"
    /\ Len(path.alphas_arg) >= 2
    /\ RLt(path.alphas_arg[1], path.alphas_arg[2])
    /\ path.alphas # path.alphas_arg
    /\ Len(path.n_iters) = Len(path.alphas)

====
